---------------------------- MODULE Spec2Model ----------------------------
(***************************************************************************)
(* A model of dirty-debug (src/src/lib.rs): ad-hoc append logging to a     *)
(* file or a TCP endpoint through two process-wide DashMap caches of open  *)
(* handles, callable from any number of threads.                           *)
(*                                                                         *)
(* Strings are sequences of one-character strings.  A byte written to a    *)
(* destination is the number of the call that wrote it (the calls of the   *)
(* process are numbered from 1), so that every message is distinguishable; *)
(* NL is the newline byte.                                                 *)
(***************************************************************************)
EXTENDS Integers, Sequences, FiniteSets, TLC

(* ------------------------------ bounds -------------------------------- *)

\* number of threads calling ddbg!() concurrently
NumThreads == 2

\* number of ddbg!() calls the threads make in all
MaxCalls == 2

\* number of bytes the formatted message of one call has
MsgLen == 1

\* number of shards of one DashMap
NumShards == 2

\* number of characters after the scheme in the destination strings the
\* resolution is examined on
MaxBody == 5

Threads == 1..NumThreads

Shards == 1..NumShards

(* ------------------------------ strings ------------------------------- *)

TcpScheme == <<"t", "c", "p", ":", "/", "/">>

FileScheme == <<"f", "i", "l", "e", ":", "/", "/">>

\* The destination strings of the call sites of one program: a run of the
\* model is a run of one of these programs.
Workloads ==
    { { <<"a">>, FileScheme \o <<"a">> },
      { <<"a">>, <<"b">> },
      { <<"b">>, TcpScheme \o <<"h", ":", "7">> },
      { TcpScheme \o <<"h", ":", "7">>, TcpScheme \o <<"h">>,
        TcpScheme \o <<"h", ":">> } }

\* every destination string some program passes to ddbg!()
URIS == UNION Workloads

\* the characters of the destination strings the resolution is examined on
Alphabet == {"[", "]", ":", "1"}

\* the strings over Alphabet of length n
Strings(n) == [1..n -> Alphabet]

\* The destination strings the resolution is examined on: every string of up to
\* MaxBody characters, bare and after each scheme, and the destinations of the
\* crate's tests and documentation.
Inputs ==
    LET bodies == UNION {Strings(n) : n \in 0..MaxBody}
    IN  UNION {{b, TcpScheme \o b, FileScheme \o b} : b \in bodies}
        \cup { TcpScheme \o <<"[", ":", ":", "1", "]", ":", "9", "9", "9", "9">>,
               TcpScheme \o <<":", ":", "1", ":", "9", "9", "9", "9">>,
               TcpScheme \o <<"l", "o", "c", "a", "l", "h", "o", "s", "t", ":",
                              "9", "9", "9", "9">>,
               TcpScheme \o <<"h", ":", "6", "5", "5", "3", "5">>,
               TcpScheme \o <<"h", ":", "6", "5", "5", "3", "6">>,
               TcpScheme \o <<"h", ":", "+", "8", "0">>,
               TcpScheme \o <<"h", ":", "-", "1">>,
               TcpScheme \o <<"h", ":", "0">>,
               FileScheme \o <<"/", "t", "m", "p", "/", "x">>,
               <<"/", "t", "m", "p", "/", "x">> }

\* str::strip_prefix: <<TRUE, rest>> when s starts with p, <<FALSE, s>> otherwise
StripPrefix(s, p) ==
    IF Len(s) >= Len(p) /\ SubSeq(s, 1, Len(p)) = p
    THEN <<TRUE, SubSeq(s, Len(p) + 1, Len(s))>>
    ELSE <<FALSE, s>>

\* str::strip_suffix
StripSuffix(s, p) ==
    IF Len(s) >= Len(p) /\ SubSeq(s, Len(s) - Len(p) + 1, Len(s)) = p
    THEN <<TRUE, SubSeq(s, 1, Len(s) - Len(p))>>
    ELSE <<FALSE, s>>

\* RSplitOnce as str::split_once(':'): the split at the FIRST colon.
SplitOnceFirst(s) ==
    LET colons == {i \in 1..Len(s) : s[i] = ":"}
    IN  IF colons = {}
        THEN [found |-> FALSE, left |-> s, right |-> <<>>]
        ELSE LET i == CHOOSE j \in colons : \A k \in colons : k >= j
             IN  [found |-> TRUE,
                  left  |-> SubSeq(s, 1, i - 1),
                  right |-> SubSeq(s, i + 1, Len(s))]

\* str::rsplit_once(':'): the split at the LAST colon, or <<FALSE, .. >> without one
RSplitOnce(s) ==
    LET colons == {i \in 1..Len(s) : s[i] = ":"}
    IN  IF colons = {}
        THEN [found |-> FALSE, left |-> s, right |-> <<>>]
        ELSE LET i == CHOOSE j \in colons : \A k \in colons : k <= j
             IN  [found |-> TRUE,
                  left  |-> SubSeq(s, 1, i - 1),
                  right |-> SubSeq(s, i + 1, Len(s))]

Digits == <<"0", "1", "2", "3", "4", "5", "6", "7", "8", "9">>

DigitValue(c) == (CHOOSE i \in 1..10 : Digits[i] = c) - 1

IsDigit(c) == \E i \in 1..10 : Digits[i] = c

\* the number a sequence of digits denotes, read from the left
DecimalValue(s) ==
    LET value[i \in 0..Len(s)] ==
            IF i = 0 THEN 0 ELSE 10 * value[i - 1] + DigitValue(s[i])
    IN  value[Len(s)]

U16Max == 65535

\* ParseU16 with the value wrapped around at 2^16 instead of the overflow Err.
ParseU16Wrapping(s) ==
    LET d == IF s # <<>> /\ s[1] = "+" THEN Tail(s) ELSE s
    IN  IF d = <<>> \/ \E i \in 1..Len(d) : ~IsDigit(d[i]) THEN -1
        ELSE DecimalValue(d) % (U16Max + 1)

\* u16::from_str: an optional '+', then one or more decimal digits, the value
\* at most u16::MAX; -1 stands for the Err
ParseU16(s) ==
    LET d == IF s # <<>> /\ s[1] = "+" THEN Tail(s) ELSE s
    IN  IF d = <<>> \/ \E i \in 1..Len(d) : ~IsDigit(d[i]) THEN -1
        ELSE IF Len(d) > 5 /\ \E i \in 1..(Len(d) - 5) : d[i] # "0" THEN -1
        ELSE LET sig == IF Len(d) > 5 THEN SubSeq(d, Len(d) - 4, Len(d)) ELSE d
                 v   == DecimalValue(sig)
             IN  IF v > U16Max THEN -1 ELSE v

\* StripBrackets with each bracket stripped on its own: an opening one even
\* where no closing one follows.
StripBracketsLoose(hostname) ==
    LET p == StripPrefix(hostname, <<"[">>)
        q == StripSuffix(p[2], <<"]">>)
    IN  q[2]

\* hostname.strip_prefix('[').and_then(|h| h.strip_suffix(']')).unwrap_or(hostname)
StripBrackets(hostname) ==
    LET p == StripPrefix(hostname, <<"[">>)
        q == StripSuffix(p[2], <<"]">>)
    IN  IF p[1] /\ q[1] THEN q[2] ELSE hostname

\* Resolve with the file path taken to be the whole destination string, the
\* file scheme left on it.
ResolveKeepsFileScheme(uri) ==
    LET tcp == StripPrefix(uri, TcpScheme)
    IN  IF tcp[1]
        THEN LET hp == RSplitOnce(tcp[2])
             IN  IF ~hp.found
                 THEN [kind |-> "invalid", why |-> <<"invalid tcp uri">>]
                 ELSE IF ParseU16(hp.right) = -1
                 THEN [kind |-> "invalid", why |-> <<"invalid port number", "ParseIntError">>]
                 ELSE [kind |-> "tcp", host |-> StripBrackets(hp.left),
                       port |-> ParseU16(hp.right)]
        ELSE [kind |-> "file", path |-> uri]

\* The destination dirty_log_message resolves uri to: the cache and its key,
\* or the panic of the expect() that fails.  Option::expect panics with its
\* message, Result::expect with its message and the Err.
Resolve(uri) ==
    LET tcp == StripPrefix(uri, TcpScheme)
    IN  IF tcp[1]
        THEN LET hp == RSplitOnce(tcp[2])
             IN  IF ~hp.found
                 THEN [kind |-> "invalid", why |-> <<"invalid tcp uri">>]
                 ELSE IF ParseU16(hp.right) = -1
                 THEN [kind |-> "invalid", why |-> <<"invalid port number", "ParseIntError">>]
                 ELSE [kind |-> "tcp", host |-> StripBrackets(hp.left),
                       port |-> ParseU16(hp.right)]
        ELSE [kind |-> "file", path |-> StripPrefix(uri, FileScheme)[2]]

\* the resolution of every destination string of the programs
Resolution == [u \in URIS |-> Resolve(u)]

Resolved == {Resolution[u] : u \in URIS}

\* the keys of DIRTY_FILES the programs use (PathBuf)
FileKeys == {[kind |-> "file", path |-> p] : p \in {<<"a">>, <<"b">>}}

\* the keys of DIRTY_TCP the programs use ((String, u16))
TcpKeys == {[kind |-> "tcp", host |-> <<"h">>, port |-> 7]}

\* every key: Init requires these to be what the destination strings resolve to
Dests == FileKeys \cup TcpKeys

(* ------------------------------- bytes -------------------------------- *)

\* "\n".as_bytes()
NL == 0

\* a byte of the message formatted in call c (the c-th call of the process)
MsgByte(c) == c

\* the whole formatted message of that call
Message(c) == [i \in 1..MsgLen |-> MsgByte(c)]

\* what a file holds before the process starts: file "a" exists with one line
\* (as in test_ddbg_file_append), every other destination is empty
InitialContent(d) ==
    IF d.kind = "file" /\ d.path = <<"a">> THEN <<-1, NL>> ELSE <<>>


(* ------------------------------- state -------------------------------- *)

VARIABLES
    DIRTY_FILES,   \* the file cache: a function from the cached paths to their handle
    DIRTY_TCP,     \* the tcp cache: a function from the cached (host, port) to their handle
    filesLock,     \* DIRTY_FILES' shard locks: the thread holding the write guard, or 0
    tcpLock,       \* DIRTY_TCP's shard locks
    hash,          \* the shard each key hashes to (RandomState: fixed per process)
    fdTable,       \* the handles the process has opened: handle h is open on fdTable[h]
    out,           \* the bytes each destination holds (file) or has received (socket)
    uris,          \* the destination strings of the program's call sites
    pc,            \* where each thread is
    uri,           \* the destination string of the thread's current call
    key,           \* the key it resolved to: filepath, or (hostname, port)
    calls,         \* how many calls the process has started
    call,          \* the number of the thread's current call, or 0
    pos,           \* bytes of the message the current write_fmt has written
    formatted,     \* bytes of the message of the current call formatted so far
    handle,        \* the handle the thread's entry guard refers to, or 0
    trace,         \* the Write calls the thread's last call has made, with their results
    panicMsg,      \* the message a panicked thread died with
    okCalls,       \* per destination: the calls that returned Ok, in order of return
    logged,        \* per thread: the key and number of its calls that returned Ok, in order
    errCalls       \* per destination: the Errs a call on it has returned

vars == <<DIRTY_FILES, DIRTY_TCP, filesLock, tcpLock, hash, fdTable, out, uris,
          pc, uri, key, calls, call, pos, formatted, handle, trace, panicMsg, okCalls,
          logged,
          errCalls>>

\* the key of a thread that is in no call
NoKey == [kind |-> "none"]

\* the key of thread t's current call
Dest(t) == key[t]

\* The assignments of the program's keys to shards, up to a renaming of the
\* shards (they are interchangeable): in each cache the program's keys lie in
\* the first shards, one key of them in shard 1 and each shard after in use
\* only if the one before is; a key the program never uses lies in shard 1.
Hashes(us) ==
    LET used == {Resolution[u] : u \in us}
    IN  {f \in [Dests -> Shards] :
            /\ \A d \in Dests \ used : f[d] = 1
            /\ \A kind \in {"file", "tcp"} :
                  LET ks == {d \in Dests \cap used : d.kind = kind}
                  IN  /\ ks # {} => f[CHOOSE d \in ks : TRUE] = 1
                      /\ \A d \in ks : f[d] = 1 \/ \E e \in ks : f[e] = f[d] - 1}

\* the process before its first call: the caches are empty (Lazy::new(DashMap::new)),
\* no handle is open, no thread is in a call
Start ==
    /\ DIRTY_FILES = <<>>
    /\ DIRTY_TCP = <<>>
    /\ filesLock = [s \in Shards |-> 0]
    /\ tcpLock = [s \in Shards |-> 0]
    /\ fdTable = <<>>
    /\ pc = [t \in Threads |-> "idle"]
    /\ uri = [t \in Threads |-> <<>>]
    /\ key = [t \in Threads |-> NoKey]
    /\ calls = 0
    /\ call = [t \in Threads |-> 0]
    /\ pos = [t \in Threads |-> 0]
    /\ formatted = [t \in Threads |-> 0]
    /\ handle = [t \in Threads |-> 0]
    /\ trace = [t \in Threads |-> <<>>]
    /\ panicMsg = [t \in Threads |-> <<>>]
    /\ logged = [t \in Threads |-> <<>>]

\* the destinations ds before the first call: the files and sockets out there,
\* nothing logged to them yet
Untouched(ds) ==
    /\ out = [d \in ds |-> InitialContent(d)]
    /\ okCalls = [d \in ds |-> <<>>]
    /\ errCalls = [d \in ds |-> {}]

Init ==
    /\ Start
    /\ Untouched(Dests)
    /\ uris \in Workloads
    /\ Dests = {d \in Resolved : d.kind # "invalid"}
    /\ hash \in Hashes(uris)

\* the start of a program with one call site, whose destination string is any
\* of Inputs
ResolveInit ==
    /\ Start
    /\ Untouched(Dests)
    /\ uris \in {{u} : u \in Inputs}
    /\ hash = [d \in Dests |-> 1]

\* the paths p of the programs that log to both p and file://p
Paths ==
    { <<"a">>, <<"/", "x">>, FileScheme \o <<"b">>, TcpScheme \o <<"h">>,
      TcpScheme \o <<"h", ":", "7">> }

\* the keys the destination strings us resolve to
KeysOf(us) == {Resolve(u) : u \in {v \in us : Resolve(v).kind # "invalid"}}

\* the start of a program with two call sites, one logging to a path p and
\* one to file://p; its keys lie in any shards (up to a renaming of the shards)
SchemeInit ==
    /\ Start
    /\ uris \in {{p, FileScheme \o p} : p \in Paths}
    /\ Untouched(KeysOf(uris))
    /\ hash \in {f \in [KeysOf(uris) -> Shards] :
                    \A kind \in {"file", "tcp"} :
                        LET ks == {d \in KeysOf(uris) : d.kind = kind}
                        IN  /\ ks # {} => f[CHOOSE d \in ks : TRUE] = 1
                            /\ \A d \in ks : f[d] = 1 \/ \E e \in ks : f[e] = f[d] - 1}

(* ------------------------------ actions ------------------------------- *)

\* PanicWith with a diagnostic of the error alone.
PanicWithErrorOnly(t, e) ==
    /\ pc' = [pc EXCEPT ![t] = "panicked"]
    /\ panicMsg' = [panicMsg EXCEPT ![t] = <<"failed to log", e>>]
    /\ errCalls' = [errCalls EXCEPT ![Dest(t)] = @ \cup {e}]
    /\ uri' = [uri EXCEPT ![t] = <<>>]
    /\ key' = [key EXCEPT ![t] = NoKey]
    /\ call' = [call EXCEPT ![t] = 0]
    /\ pos' = [pos EXCEPT ![t] = 0]
    /\ formatted' = [formatted EXCEPT ![t] = 0]
    /\ handle' = [handle EXCEPT ![t] = 0]

\* if let Err(e) = result { panic!("failed to log to \"{}\": {}", uri, e) }:
\* the thread dies with the message; its locals are gone.
PanicWith(t, e) ==
    /\ pc' = [pc EXCEPT ![t] = "panicked"]
    /\ panicMsg' = [panicMsg EXCEPT ![t] = <<"failed to log to", uri[t], e>>]
    /\ errCalls' = [errCalls EXCEPT ![Dest(t)] = @ \cup {e}]
    /\ uri' = [uri EXCEPT ![t] = <<>>]
    /\ key' = [key EXCEPT ![t] = NoKey]
    /\ call' = [call EXCEPT ![t] = 0]
    /\ pos' = [pos EXCEPT ![t] = 0]
    /\ formatted' = [formatted EXCEPT ![t] = 0]
    /\ handle' = [handle EXCEPT ![t] = 0]

\* The result is Ok: dirty_log_message returns to its caller.
ReturnOk(t) ==
    /\ pc' = [pc EXCEPT ![t] = "idle"]
    /\ okCalls' = [okCalls EXCEPT ![fdTable[handle[t]]] = Append(@, call[t])]
    /\ logged' = [logged EXCEPT ![t] = Append(@, <<Dest(t), call[t]>>)]
    /\ uri' = [uri EXCEPT ![t] = <<>>]
    /\ key' = [key EXCEPT ![t] = NoKey]
    /\ call' = [call EXCEPT ![t] = 0]
    /\ pos' = [pos EXCEPT ![t] = 0]
    /\ formatted' = [formatted EXCEPT ![t] = 0]
    /\ handle' = [handle EXCEPT ![t] = 0]
    /\ UNCHANGED <<panicMsg, errCalls>>

\* Call with the message built first, as with format!() into a String, and
\* the String handed to dirty_log_message.
CallFormatsFirst(t, u) ==
    /\ pc[t] = "idle"
    /\ calls < MaxCalls
    /\ calls' = calls + 1
    /\ trace' = [trace EXCEPT ![t] = <<>>]
    /\ LET r == Resolve(u)
       IN  IF r.kind = "invalid"
       THEN /\ pc' = [pc EXCEPT ![t] = "panicked"]
            /\ panicMsg' = [panicMsg EXCEPT ![t] = r.why]
            /\ UNCHANGED <<uri, key, call, formatted>>
       ELSE /\ pc' = [pc EXCEPT ![t] =
                        IF r.kind = "tcp" THEN "tcp_entry" ELSE "file_entry"]
            /\ uri' = [uri EXCEPT ![t] = u]
            /\ key' = [key EXCEPT ![t] = r]
            /\ call' = [call EXCEPT ![t] = calls + 1]
            /\ formatted' = [formatted EXCEPT ![t] = MsgLen]
            /\ panicMsg' = panicMsg
    /\ UNCHANGED <<DIRTY_FILES, DIRTY_TCP, filesLock, tcpLock, hash, fdTable, out,
                   uris, pos, handle, okCalls, logged, errCalls>>

\* ddbg!(u, ..) -> dirty_log_message(u, args), up to the dispatch: the two
\* expect() of the tcp branch panic on a malformed destination.  args is what
\* format_args! builds: the pieces and references to the arguments, nothing of
\* the message formatted yet.
Call(t, u) ==
    /\ pc[t] = "idle"
    /\ calls < MaxCalls
    /\ calls' = calls + 1
    /\ trace' = [trace EXCEPT ![t] = <<>>]
    /\ formatted' = [formatted EXCEPT ![t] = 0]
    /\ LET r == Resolve(u)
       IN  IF r.kind = "invalid"
       THEN /\ pc' = [pc EXCEPT ![t] = "panicked"]
            /\ panicMsg' = [panicMsg EXCEPT ![t] = r.why]
            /\ UNCHANGED <<uri, key, call>>
       ELSE /\ pc' = [pc EXCEPT ![t] =
                        IF r.kind = "tcp" THEN "tcp_entry" ELSE "file_entry"]
            /\ uri' = [uri EXCEPT ![t] = u]
            /\ key' = [key EXCEPT ![t] = r]
            /\ call' = [call EXCEPT ![t] = calls + 1]
            /\ panicMsg' = panicMsg
    /\ UNCHANGED <<DIRTY_FILES, DIRTY_TCP, filesLock, tcpLock, hash, fdTable, out,
                   uris, pos, handle, okCalls, logged, errCalls>>

\* FileEntry with an entry() that takes no lock: a lookup, then an insert.
FileEntryNoLock(t) ==
    /\ pc[t] = "file_entry"
    /\ filesLock' = [filesLock EXCEPT ![hash[Dest(t)]] = t]
    /\ IF Dest(t) \in DOMAIN DIRTY_FILES
       THEN /\ handle' = [handle EXCEPT ![t] = DIRTY_FILES[Dest(t)]]
            /\ pc' = [pc EXCEPT ![t] = "write_fmt"]
       ELSE /\ handle' = handle
            /\ pc' = [pc EXCEPT ![t] = "file_open"]
    /\ UNCHANGED <<DIRTY_FILES, DIRTY_TCP, tcpLock, hash, fdTable, out, uris,
                   uri, key, calls, call, pos, formatted, trace, panicMsg, okCalls,
                   logged, errCalls>>

\* FileEntry with a lock over the whole map instead of the key's shard.
FileEntryLocksMap(t) ==
    /\ pc[t] = "file_entry"
    /\ \A s \in Shards : filesLock[s] = 0
    /\ filesLock' = [s \in Shards |-> t]
    /\ IF Dest(t) \in DOMAIN DIRTY_FILES
       THEN /\ handle' = [handle EXCEPT ![t] = DIRTY_FILES[Dest(t)]]
            /\ pc' = [pc EXCEPT ![t] = "write_fmt"]
       ELSE /\ handle' = handle
            /\ pc' = [pc EXCEPT ![t] = "file_open"]
    /\ UNCHANGED <<DIRTY_FILES, DIRTY_TCP, tcpLock, hash, fdTable, out, uris,
                   uri, key, calls, call, pos, formatted, trace, panicMsg, okCalls,
                   logged, errCalls>>

\* FileEntry with an insert that runs the closure on an occupied entry too.
FileEntryReopens(t) ==
    /\ pc[t] = "file_entry"
    /\ filesLock[hash[Dest(t)]] = 0
    /\ filesLock' = [filesLock EXCEPT ![hash[Dest(t)]] = t]
    /\ handle' = handle
    /\ pc' = [pc EXCEPT ![t] = "file_open"]
    /\ UNCHANGED <<DIRTY_FILES, DIRTY_TCP, tcpLock, hash, fdTable, out, uris,
                   uri, key, calls, call, pos, formatted, trace, panicMsg, okCalls,
                   logged, errCalls>>

\* DIRTY_FILES.entry(filepath): blocks until the shard's write lock is free,
\* takes it and looks the key up.  On an occupied entry or_try_insert_with
\* returns the existing handle without calling the closure.
FileEntry(t) ==
    /\ pc[t] = "file_entry"
    /\ filesLock[hash[Dest(t)]] = 0
    /\ filesLock' = [filesLock EXCEPT ![hash[Dest(t)]] = t]
    /\ IF Dest(t) \in DOMAIN DIRTY_FILES
       THEN /\ handle' = [handle EXCEPT ![t] = DIRTY_FILES[Dest(t)]]
            /\ pc' = [pc EXCEPT ![t] = "write_fmt"]
       ELSE /\ handle' = handle
            /\ pc' = [pc EXCEPT ![t] = "file_open"]
    /\ UNCHANGED <<DIRTY_FILES, DIRTY_TCP, tcpLock, hash, fdTable, out, uris,
                   uri, key, calls, call, pos, formatted, trace, panicMsg, okCalls,
                   logged, errCalls>>

\* FileOpenStep with the shard's lock released once the handle is inserted.
FileOpenStepUnlocks(t, openable) ==
    /\ pc[t] = "file_open"
    /\ filesLock' = [filesLock EXCEPT ![hash[Dest(t)]] = 0]
    /\ IF openable
       THEN /\ fdTable' = Append(fdTable, Dest(t))
            /\ DIRTY_FILES' = (Dest(t) :> (Len(fdTable) + 1)) @@ DIRTY_FILES
            /\ handle' = [handle EXCEPT ![t] = Len(fdTable) + 1]
            /\ pc' = [pc EXCEPT ![t] = "write_fmt"]
            /\ UNCHANGED <<uri, key, call, pos, formatted, panicMsg, errCalls>>
       ELSE /\ PanicWith(t, "open_err")
            /\ UNCHANGED <<fdTable, DIRTY_FILES>>
    /\ UNCHANGED <<DIRTY_TCP, tcpLock, hash, out, uris, calls, trace, okCalls, logged>>

\* FileOpenStep with an entry committed before the open is known to succeed.
FileOpenStepCachesFailure(t, openable) ==
    /\ pc[t] = "file_open"
    /\ fdTable' = Append(fdTable, Dest(t))
    /\ DIRTY_FILES' = (Dest(t) :> (Len(fdTable) + 1)) @@ DIRTY_FILES
    /\ IF openable
       THEN /\ handle' = [handle EXCEPT ![t] = Len(fdTable) + 1]
            /\ pc' = [pc EXCEPT ![t] = "write_fmt"]
            /\ UNCHANGED <<filesLock, uri, key, call, pos, formatted, panicMsg, errCalls>>
       ELSE /\ filesLock' = [filesLock EXCEPT ![hash[Dest(t)]] = 0]
            /\ PanicWith(t, "open_err")
    /\ UNCHANGED <<DIRTY_TCP, tcpLock, hash, out, uris, calls, trace, okCalls, logged>>

\* FileOpenStep with File::create, which truncates, in place of append(true).
FileOpenStepTruncates(t, openable) ==
    /\ pc[t] = "file_open"
    /\ IF openable
       THEN /\ fdTable' = Append(fdTable, Dest(t))
            /\ DIRTY_FILES' = (Dest(t) :> (Len(fdTable) + 1)) @@ DIRTY_FILES
            /\ handle' = [handle EXCEPT ![t] = Len(fdTable) + 1]
            /\ pc' = [pc EXCEPT ![t] = "write_fmt"]
            /\ out' = [out EXCEPT ![Dest(t)] = <<>>]
            /\ UNCHANGED <<filesLock, uri, key, call, pos, formatted, panicMsg, errCalls>>
       ELSE /\ filesLock' = [filesLock EXCEPT ![hash[Dest(t)]] = 0]
            /\ PanicWith(t, "open_err")
            /\ UNCHANGED <<fdTable, DIRTY_FILES, out>>
    /\ UNCHANGED <<DIRTY_TCP, tcpLock, hash, uris, calls, trace, okCalls, logged>>

\* The closure of or_try_insert_with on a vacant entry:
\* File::options().create(true).append(true).open(filepath), which succeeds
\* or fails as the file system decides (openable: its answer).  Ok: the
\* file's bytes stay as they are and the handle is inserted.  Err: `?`
\* returns it, dropping the vacant entry and with it the shard's lock, and
\* dirty_log_message panics.
FileOpenStep(t, openable) ==
    /\ pc[t] = "file_open"
    /\ IF openable
       THEN /\ fdTable' = Append(fdTable, Dest(t))
            /\ DIRTY_FILES' = (Dest(t) :> (Len(fdTable) + 1)) @@ DIRTY_FILES
            /\ handle' = [handle EXCEPT ![t] = Len(fdTable) + 1]
            /\ pc' = [pc EXCEPT ![t] = "write_fmt"]
            /\ UNCHANGED <<filesLock, uri, key, call, pos, formatted, panicMsg, errCalls>>
       ELSE /\ filesLock' = [filesLock EXCEPT ![hash[Dest(t)]] = 0]
            /\ PanicWith(t, "open_err")
            /\ UNCHANGED <<fdTable, DIRTY_FILES>>
    /\ UNCHANGED <<DIRTY_TCP, tcpLock, hash, out, uris, calls, trace, okCalls, logged>>

FileOpen(t) == \E openable \in BOOLEAN : FileOpenStep(t, openable)

\* TcpEntry with an entry() that takes no lock.
TcpEntryNoLock(t) ==
    /\ pc[t] = "tcp_entry"
    /\ tcpLock' = [tcpLock EXCEPT ![hash[Dest(t)]] = t]
    /\ IF Dest(t) \in DOMAIN DIRTY_TCP
       THEN /\ handle' = [handle EXCEPT ![t] = DIRTY_TCP[Dest(t)]]
            /\ pc' = [pc EXCEPT ![t] = "write_fmt"]
       ELSE /\ handle' = handle
            /\ pc' = [pc EXCEPT ![t] = "tcp_connect"]
    /\ UNCHANGED <<DIRTY_FILES, DIRTY_TCP, filesLock, hash, fdTable, out, uris,
                   uri, key, calls, call, pos, formatted, trace, panicMsg, okCalls,
                   logged, errCalls>>

\* DIRTY_TCP.entry((hostname, port))
TcpEntry(t) ==
    /\ pc[t] = "tcp_entry"
    /\ tcpLock[hash[Dest(t)]] = 0
    /\ tcpLock' = [tcpLock EXCEPT ![hash[Dest(t)]] = t]
    /\ IF Dest(t) \in DOMAIN DIRTY_TCP
       THEN /\ handle' = [handle EXCEPT ![t] = DIRTY_TCP[Dest(t)]]
            /\ pc' = [pc EXCEPT ![t] = "write_fmt"]
       ELSE /\ handle' = handle
            /\ pc' = [pc EXCEPT ![t] = "tcp_connect"]
    /\ UNCHANGED <<DIRTY_FILES, DIRTY_TCP, filesLock, hash, fdTable, out, uris,
                   uri, key, calls, call, pos, formatted, trace, panicMsg, okCalls,
                   logged, errCalls>>

\* TcpConnectStep with a failed connect cached as a dead entry (handle 0).
TcpConnectStepCachesFailure(t, openable) ==
    /\ pc[t] = "tcp_connect"
    /\ IF openable
       THEN /\ fdTable' = Append(fdTable, Dest(t))
            /\ DIRTY_TCP' = (Dest(t) :> (Len(fdTable) + 1)) @@ DIRTY_TCP
            /\ handle' = [handle EXCEPT ![t] = Len(fdTable) + 1]
            /\ pc' = [pc EXCEPT ![t] = "write_fmt"]
            /\ UNCHANGED <<tcpLock, uri, key, call, pos, formatted, panicMsg, errCalls>>
       ELSE /\ tcpLock' = [tcpLock EXCEPT ![hash[Dest(t)]] = 0]
            /\ DIRTY_TCP' = (Dest(t) :> 0) @@ DIRTY_TCP
            /\ PanicWith(t, "open_err")
            /\ UNCHANGED fdTable
    /\ UNCHANGED <<DIRTY_FILES, filesLock, hash, out, uris, calls, trace, okCalls, logged>>

\* The closure of or_try_insert_with: TcpStream::connect((hostname, port)),
\* which succeeds or fails as the network decides
TcpConnectStep(t, openable) ==
    /\ pc[t] = "tcp_connect"
    /\ IF openable
       THEN /\ fdTable' = Append(fdTable, Dest(t))
            /\ DIRTY_TCP' = (Dest(t) :> (Len(fdTable) + 1)) @@ DIRTY_TCP
            /\ handle' = [handle EXCEPT ![t] = Len(fdTable) + 1]
            /\ pc' = [pc EXCEPT ![t] = "write_fmt"]
            /\ UNCHANGED <<tcpLock, uri, key, call, pos, formatted, panicMsg, errCalls>>
       ELSE /\ tcpLock' = [tcpLock EXCEPT ![hash[Dest(t)]] = 0]
            /\ PanicWith(t, "open_err")
            /\ UNCHANGED <<fdTable, DIRTY_TCP>>
    /\ UNCHANGED <<DIRTY_FILES, filesLock, hash, out, uris, calls, trace, okCalls, logged>>

TcpConnect(t) == \E openable \in BOOLEAN : TcpConnectStep(t, openable)

\* The entry guard goes out of scope when dirty_log_str_file / dirty_log_str_tcp
\* returns: the thread's shard lock is released.
DropEntry(t) ==
    /\ filesLock' = [s \in Shards |-> IF filesLock[s] = t THEN 0 ELSE filesLock[s]]
    /\ tcpLock' = [s \in Shards |-> IF tcpLock[s] = t THEN 0 ELSE tcpLock[s]]

\* WriterErr with the entry of a handle that failed removed from the cache.
WriterErrEvicts(t, e) ==
    /\ DropEntry(t)
    /\ PanicWith(t, e)
    /\ DIRTY_FILES' = [k \in DOMAIN DIRTY_FILES \ {Dest(t)} |-> DIRTY_FILES[k]]
    /\ DIRTY_TCP' = [k \in DOMAIN DIRTY_TCP \ {Dest(t)} |-> DIRTY_TCP[k]]
    /\ UNCHANGED <<okCalls, logged>>

\* WriterErr with the panic raised where the write failed, inside the cache
\* function, by a thread whose guard is never dropped.
WriterErrKeepsEntry(t, e) ==
    /\ PanicWith(t, e)
    /\ UNCHANGED <<filesLock, tcpLock, DIRTY_FILES, DIRTY_TCP, okCalls, logged>>

\* The `?` of dirty_log_str_writer on a failed write: the Err is the result
\* of the cache function, whose return drops the entry; dirty_log_message
\* panics with it.
WriterErr(t, e) ==
    /\ DropEntry(t)
    /\ PanicWith(t, e)
    /\ UNCHANGED <<DIRTY_FILES, DIRTY_TCP, okCalls, logged>>

\* WriteFmtStep without the `?`: the Err of a failed write is dropped and the
\* routine goes on.
WriteFmtStepIgnoresErr(t, ok) ==
    /\ pc[t] = "write_fmt"
    /\ trace' = [trace EXCEPT ![t] = Append(@, <<"write", ok>>)]
    /\ out' = IF ok THEN [out EXCEPT ![fdTable[handle[t]]] =
                                Append(@, MsgByte(call[t]))]
              ELSE out
    /\ pos' = [pos EXCEPT ![t] = @ + 1]
    /\ formatted' = [formatted EXCEPT ![t] = @ + 1]
    /\ pc' = [pc EXCEPT ![t] =
                IF pos[t] + 1 = MsgLen THEN "write_nl" ELSE "write_fmt"]
    /\ UNCHANGED <<DIRTY_FILES, DIRTY_TCP, filesLock, tcpLock, uri, key, call,
                   handle, panicMsg, okCalls, logged, errCalls>>
    /\ UNCHANGED <<hash, fdTable, uris, calls>>

\* WriteFmtStep on a handle without append(true) that stands at the start of
\* the file: the byte goes in front of what the file holds.
WriteFmtStepAtStart(t, ok) ==
    /\ pc[t] = "write_fmt"
    /\ trace' = [trace EXCEPT ![t] = Append(@, <<"write", ok>>)]
    /\ IF ok
       THEN /\ out' = [out EXCEPT ![fdTable[handle[t]]] = <<MsgByte(call[t])>> \o @]
            /\ pos' = [pos EXCEPT ![t] = @ + 1]
            /\ formatted' = [formatted EXCEPT ![t] = @ + 1]
            /\ pc' = [pc EXCEPT ![t] =
                        IF pos[t] + 1 = MsgLen THEN "write_nl" ELSE "write_fmt"]
            /\ UNCHANGED <<DIRTY_FILES, DIRTY_TCP, filesLock, tcpLock, uri, key, call,
                           handle, panicMsg, okCalls, logged, errCalls>>
       ELSE /\ WriterErr(t, "write_err")
            /\ UNCHANGED out
    /\ UNCHANGED <<hash, fdTable, uris, calls>>

\* writer.write_fmt(args)?: the next byte of the message is formatted and
\* written to the handle (ok: whether the write succeeds).
WriteFmtStep(t, ok) ==
    /\ pc[t] = "write_fmt"
    /\ trace' = [trace EXCEPT ![t] = Append(@, <<"write", ok>>)]
    /\ IF ok
       THEN /\ out' = [out EXCEPT ![fdTable[handle[t]]] =
                            Append(@, MsgByte(call[t]))]
            /\ pos' = [pos EXCEPT ![t] = @ + 1]
            /\ formatted' = [formatted EXCEPT ![t] = @ + 1]
            /\ pc' = [pc EXCEPT ![t] =
                        IF pos[t] + 1 = MsgLen THEN "write_nl" ELSE "write_fmt"]
            /\ UNCHANGED <<DIRTY_FILES, DIRTY_TCP, filesLock, tcpLock, uri, key, call,
                           handle, panicMsg, okCalls, logged, errCalls>>
       ELSE /\ WriterErr(t, "write_err")
            /\ UNCHANGED out
    /\ UNCHANGED <<hash, fdTable, uris, calls>>

WriteFmt(t) == \E ok \in BOOLEAN : WriteFmtStep(t, ok)

\* WriteNewlineStep without the `?`: the Err of a failed write of the newline
\* is dropped and the routine goes on to the flush.
WriteNewlineStepIgnoresErr(t, ok) ==
    /\ pc[t] = "write_nl"
    /\ trace' = [trace EXCEPT ![t] = Append(@, <<"newline", ok>>)]
    /\ out' = IF ok THEN [out EXCEPT ![fdTable[handle[t]]] = Append(@, NL)] ELSE out
    /\ pc' = [pc EXCEPT ![t] = "flush"]
    /\ UNCHANGED <<DIRTY_FILES, DIRTY_TCP, filesLock, tcpLock, uri, key, call,
                   pos, formatted, handle, panicMsg, okCalls, logged, errCalls>>
    /\ UNCHANGED <<hash, fdTable, uris, calls>>

\* writer.write_all("\n".as_bytes())?
WriteNewlineStep(t, ok) ==
    /\ pc[t] = "write_nl"
    /\ trace' = [trace EXCEPT ![t] = Append(@, <<"newline", ok>>)]
    /\ IF ok
       THEN /\ out' = [out EXCEPT ![fdTable[handle[t]]] = Append(@, NL)]
            /\ pc' = [pc EXCEPT ![t] = "flush"]
            /\ UNCHANGED <<DIRTY_FILES, DIRTY_TCP, filesLock, tcpLock, uri, key, call,
                           pos, formatted, handle, panicMsg, okCalls, logged, errCalls>>
       ELSE /\ WriterErr(t, "write_err")
            /\ UNCHANGED out
    /\ UNCHANGED <<hash, fdTable, uris, calls>>

WriteNewline(t) == \E ok \in BOOLEAN : WriteNewlineStep(t, ok)

\* FlushStep with a guard that outlives the call that returns Ok: the shard
\* stays locked.
FlushStepKeepsEntry(t, ok) ==
    /\ pc[t] = "flush"
    /\ trace' = [trace EXCEPT ![t] = Append(@, <<"flush", ok>>)]
    /\ IF ok
       THEN /\ ReturnOk(t)
            /\ UNCHANGED <<filesLock, tcpLock, DIRTY_FILES, DIRTY_TCP>>
       ELSE WriterErr(t, "flush_err")
    /\ UNCHANGED <<hash, fdTable, out, uris, calls>>

\* writer.flush(), whose result is the result of the cache function: the entry
\* is dropped, and dirty_log_message returns or panics.
FlushStep(t, ok) ==
    /\ pc[t] = "flush"
    /\ trace' = [trace EXCEPT ![t] = Append(@, <<"flush", ok>>)]
    /\ IF ok
       THEN DropEntry(t) /\ ReturnOk(t) /\ UNCHANGED <<DIRTY_FILES, DIRTY_TCP>>
       ELSE WriterErr(t, "flush_err")
    /\ UNCHANGED <<hash, fdTable, out, uris, calls>>

Flush(t) == \E ok \in BOOLEAN : FlushStep(t, ok)

Next ==
    \/ \E t \in Threads : \E u \in uris : Call(t, u)
    \/ \E t \in Threads : FileEntry(t)
    \/ \E t \in Threads : FileOpen(t)
    \/ \E t \in Threads : TcpEntry(t)
    \/ \E t \in Threads : TcpConnect(t)
    \/ \E t \in Threads : WriteFmt(t)
    \/ \E t \in Threads : WriteNewline(t)
    \/ \E t \in Threads : Flush(t)

Spec == Init /\ [][Next]_vars

\* a step of thread t inside a call: a thread in a call is scheduled again and
\* again, and its open, connect, write or flush returns; a thread in entry()
\* gets the shard's lock when it is free
Step(t) ==
    \/ FileEntry(t) \/ FileOpen(t) \/ TcpEntry(t) \/ TcpConnect(t)
    \/ WriteFmt(t) \/ WriteNewline(t) \/ Flush(t)

\* the program under a fair scheduler, with I/O that returns; no thread has to
\* make a call
FairSpec == Spec /\ \A t \in Threads : WF_vars(Step(t))

\* the programs that log to a path both bare and with the file scheme
SchemeSpec == SchemeInit /\ [][Next]_vars

\* the calls of dirty_log_message up to the dispatch to a cache function
Dispatch == \E t \in Threads : \E u \in uris : Call(t, u)

\* the resolution of any destination string: the program of ResolveInit, each
\* call followed up to the dispatch
ResolveSpec == ResolveInit /\ [][Dispatch]_vars

TypeOK ==
    /\ DOMAIN DIRTY_FILES \subseteq FileKeys
    /\ DOMAIN DIRTY_TCP \subseteq TcpKeys
    /\ filesLock \in [Shards -> 0..NumThreads]
    /\ tcpLock \in [Shards -> 0..NumThreads]
    /\ calls \in 0..MaxCalls
    /\ \A t \in Threads : call[t] \in 0..calls /\ pos[t] \in 0..MsgLen


(* ------------------------- auxiliary definitions ---------------------- *)

EntryStates == {"file_entry", "tcp_entry"}

OpenStates == {"file_open", "tcp_connect"}

WriterStates == {"write_fmt", "write_nl", "flush"}

\* thread t holds a cache entry: from the return of entry() to the return of
\* dirty_log_str_file / dirty_log_str_tcp
InCS(t) == pc[t] \in OpenStates \cup WriterStates

Cached(d) ==
    IF d.kind = "file" THEN d \in DOMAIN DIRTY_FILES ELSE d \in DOMAIN DIRTY_TCP

CachedHandle(d) == IF d.kind = "file" THEN DIRTY_FILES[d] ELSE DIRTY_TCP[d]

ShardFree(d) ==
    IF d.kind = "file" THEN filesLock[hash[d]] = 0 ELSE tcpLock[hash[d]] = 0

\* the handles open on d: the cache closes none
HandlesOn(d) == {h \in 1..Len(fdTable) : fdTable[h] = d}

WriterFailed(d) == errCalls[d] \cap {"write_err", "flush_err"} # {}

IsPrefix(p, s) == Len(p) <= Len(s) /\ SubSeq(s, 1, Len(p)) = p

\* what has been added to d since the process started
Added(d) == SubSeq(out[d], Len(InitialContent(d)) + 1, Len(out[d]))

\* the lines of s: the pieces that end with NL, without it
RECURSIVE Lines(_)
Lines(s) ==
    IF \A i \in 1..Len(s) : s[i] # NL THEN <<>>
    ELSE LET n == CHOOSE i \in 1..Len(s) :
                     s[i] = NL /\ \A j \in 1..(i - 1) : s[j] # NL
         IN  <<SubSeq(s, 1, n - 1)>> \o Lines(SubSeq(s, n + 1, Len(s)))

\* the records <message>\n of the calls cs, one after the other
RECURSIVE Records(_)
Records(cs) ==
    IF cs = <<>> THEN <<>> ELSE Message(Head(cs)) \o <<NL>> \o Records(Tail(cs))

(* ------------------------------- claims ------------------------------- *)

\* C1: at most one open per key.  However many threads log to a key, at
\* most one open/connect on it succeeds, so at most one handle on the key
\* exists; the cache holds that handle, and every thread that is past the
\* open writes through it.
AtMostOneOpen ==
    \A d \in Dests :
        /\ Cardinality(HandlesOn(d)) <= 1
        /\ Cached(d) <=> HandlesOn(d) # {}
        /\ Cached(d) => CachedHandle(d) \in HandlesOn(d)
        /\ \A t \in Threads :
              pc[t] \in WriterStates /\ Dest(t) = d
                  => Cached(d) /\ handle[t] = CachedHandle(d)
        /\ okCalls[d] # <<>> => Cardinality(HandlesOn(d)) = 1

\* Two calls on one key overlapped (the later-numbered call returned first,
\* the earlier one is still writing) and one open served both.
AtMostOneOpenWitness ==
    \E d \in Dests : \E t \in Threads :
        /\ pc[t] \in WriterStates /\ Dest(t) = d
        /\ okCalls[d] # <<>> /\ okCalls[d][1] > call[t]
        /\ Cardinality(HandlesOn(d)) = 1

\* C2: no interleaving.  On a destination no write routine has failed on,
\* every line added is the message of one call, whole; the unfinished tail
\* holds bytes of one call only; and once no thread is writing, the lines
\* are exactly the messages of the calls that returned Ok, each once.
NoInterleaving ==
    \A d \in Dests :
        ~WriterFailed(d) =>
            LET ls      == Lines(Added(d))
                n       == Len(Added(d))
                done    == Len(ls) * (MsgLen + 1)
                tail    == SubSeq(Added(d), done + 1, n)
                writers == {t \in Threads : pc[t] \in WriterStates /\ Dest(t) = d}
            IN  /\ \A i \in 1..Len(ls) : \E c \in 1..calls : ls[i] = Message(c)
                /\ \A i, j \in 1..Len(ls) : ls[i] = ls[j] => i = j
                /\ tail = <<>> \/ \E c \in 1..calls : IsPrefix(tail, Message(c))
                /\ \A i \in 1..Len(okCalls[d]) :
                      \E j \in 1..Len(ls) : ls[j] = Message(okCalls[d][i])
                /\ writers = {} => Len(ls) = Len(okCalls[d]) /\ tail = <<>>

\* Two overlapping calls both wrote their message to one destination.
NoInterleavingWitness ==
    \E d \in Dests :
        /\ Len(okCalls[d]) = 2 /\ okCalls[d][1] > okCalls[d][2]
        /\ ~WriterFailed(d)
        /\ Len(Lines(Added(d))) = 2

\* C3: per-key mutual exclusion.  No two threads hold the entry of one key
\* at once, and whoever holds an entry holds the lock of the key's shard.
MutualExclusion ==
    \A t1, t2 \in Threads :
        /\ InCS(t1) =>
              IF Dest(t1).kind = "file" THEN filesLock[hash[Dest(t1)]] = t1
              ELSE tcpLock[hash[Dest(t1)]] = t1
        /\ t1 # t2 /\ InCS(t1) /\ InCS(t2) => Dest(t1) # Dest(t2)

\* One thread writes to a key while another waits in entry() on the same key.
MutualExclusionWitness ==
    \E t1, t2 \in Threads :
        /\ pc[t1] \in WriterStates
        /\ pc[t2] \in EntryStates
        /\ Dest(t1) = Dest(t2)

\* C4, as claimed: a thread in entry() on key A finds the way free whenever
\* no other thread holds the entry of A itself, whatever other threads do on
\* other keys.
IndependentKeysNeverBlock ==
    \A t \in Threads :
        pc[t] \in EntryStates
        /\ (\A u \in Threads \ {t} : InCS(u) => Dest(u) # Dest(t))
            => ShardFree(Dest(t))

\* C4, amended: a thread in entry() on key A finds the way free whenever no
\* other thread holds an entry of the same cache in the shard A hashes to.
\* Keys of different caches, and keys of one cache in different shards,
\* never block each other; two keys in one shard do.
DifferentShardsNeverBlock ==
    \A t \in Threads :
        pc[t] \in EntryStates
        /\ (\A u \in Threads \ {t} :
                InCS(u) => \/ Dest(u).kind # Dest(t).kind
                           \/ hash[Dest(u)] # hash[Dest(t)])
            => ShardFree(Dest(t))

\* Two opens on two different keys of the file cache at the same instant.
DifferentShardsNeverBlockWitness ==
    \E t1, t2 \in Threads :
        /\ pc[t1] = "file_open" /\ pc[t2] = "file_open"
        /\ Dest(t1) # Dest(t2)

\* C5: a failed open is never cached.  The step in which an open/connect
\* fails panics with the open's error and leaves both caches and the table
\* of handles as they were, the key absent.
FailedOpenNeverCached ==
    [][\A t \in Threads :
          pc[t] \in OpenStates /\ pc'[t] = "panicked"
              => /\ DIRTY_FILES' = DIRTY_FILES
                 /\ DIRTY_TCP' = DIRTY_TCP
                 /\ fdTable' = fdTable
                 /\ Dest(t) \notin DOMAIN DIRTY_FILES' \cup DOMAIN DIRTY_TCP'
                 /\ panicMsg'[t] = <<"failed to log to", uri[t], "open_err">>]_vars

\* A call died of a failed open and its key is not in the cache.
FailedOpenNeverCachedWitness ==
    \E t \in Threads :
        /\ pc[t] = "panicked"
        /\ Len(panicMsg[t]) = 3
        /\ panicMsg[t][3] = "open_err"
        /\ ~Cached(Resolution[panicMsg[t][2]])

\* C6: self-healing after open failure.  On a key whose open has failed
\* before, a thread that holds the entry is either about to run a fresh open
\* (the key is absent) or holds a handle really open on the key, the cached
\* one; and every call on it that returned Ok has its record in the output.
SelfHealing ==
    /\ \A t \in Threads :
          InCS(t) /\ "open_err" \in errCalls[Dest(t)] =>
              IF pc[t] \in OpenStates THEN ~Cached(Dest(t))
              ELSE /\ Cached(Dest(t))
                   /\ handle[t] = CachedHandle(Dest(t))
                   /\ handle[t] \in HandlesOn(Dest(t))
    /\ \A d \in Dests :
          "open_err" \in errCalls[d] =>
              \A i \in 1..Len(okCalls[d]) :
                  /\ Cached(d)
                  /\ \E k \in 0..Len(out[d]) :
                        IsPrefix(Message(okCalls[d][i]) \o <<NL>>,
                                 SubSeq(out[d], k + 1, Len(out[d])))

\* The connect of an endpoint failed, and a later call on it returned Ok.
SelfHealingWitness ==
    \E d \in TcpKeys :
        /\ "open_err" \in errCalls[d]
        /\ okCalls[d] # <<>>
        /\ Cached(d)

\* C7: no eviction.  No step removes a key from a cache, maps it to another
\* handle, or closes a handle.
NoEviction ==
    [][/\ \A d \in DOMAIN DIRTY_FILES :
             d \in DOMAIN DIRTY_FILES' /\ DIRTY_FILES'[d] = DIRTY_FILES[d]
       /\ \A d \in DOMAIN DIRTY_TCP :
             d \in DOMAIN DIRTY_TCP' /\ DIRTY_TCP'[d] = DIRTY_TCP[d]
       /\ IsPrefix(fdTable, fdTable')]_vars

\* A key is cached after both a successful and a failed call on it.
NoEvictionWitness ==
    \E d \in Dests : Cached(d) /\ WriterFailed(d) /\ okCalls[d] # <<>>

\* C8: a write or flush failure keeps the handle.  A failed step of the write
\* routine is fatal to its caller; the key stays cached with the one handle
\* ever opened on it, and a later call on the key does not open: it writes
\* through that handle.
WriteFailureKeepsHandle ==
    /\ \A d \in Dests :
          WriterFailed(d) =>
              /\ Cached(d)
              /\ HandlesOn(d) = {CachedHandle(d)}
              /\ \A t \in Threads :
                    InCS(t) /\ Dest(t) = d
                        => pc[t] \in WriterStates /\ handle[t] = CachedHandle(d)
    /\ \A t \in Threads :
          trace[t] # <<>> /\ ~trace[t][Len(trace[t])][2] =>
              /\ pc[t] = "panicked"
              /\ Len(panicMsg[t]) = 3
              /\ panicMsg[t][3] \in {"write_err", "flush_err"}
              /\ WriterFailed(Resolution[panicMsg[t][2]])

\* After a failed write on a key, another call writes to the key.
WriteFailureKeepsHandleWitness ==
    \E d \in Dests : \E t \in Threads :
        /\ WriterFailed(d)
        /\ pc[t] \in WriterStates /\ Dest(t) = d

\* the calls the write routine makes on the handle, in order
Protocol ==
    [i \in 1..(MsgLen + 2) |->
        IF i <= MsgLen THEN "write" ELSE IF i = MsgLen + 1 THEN "newline" ELSE "flush"]

\* C9: the write routine's protocol.  The calls a call has made on its handle
\* are the first so many of: the writes of the message, the write of one
\* newline, the flush; only the last one made may have failed, and then the
\* call is over; a call that returned made them all.  While the routine
\* runs, the output ends with what it has written so far.
WriteProtocol ==
    \A t \in Threads :
        LET n == Len(trace[t])
        IN  /\ n <= MsgLen + 2
            /\ \A i \in 1..n : trace[t][i][1] = Protocol[i]
            /\ \A i \in 1..(n - 1) : trace[t][i][2]
            /\ n > 0 /\ ~trace[t][n][2] => pc[t] = "panicked"
            /\ pc[t] = "idle" /\ n > 0 => n = MsgLen + 2 /\ trace[t][n][2]
            /\ pc[t] \in WriterStates =>
                  /\ n = IF pc[t] = "write_fmt" THEN pos[t]
                         ELSE IF pc[t] = "write_nl" THEN MsgLen ELSE MsgLen + 1
                  /\ LET o == out[Dest(t)]
                         w == IF pc[t] = "flush" THEN Message(call[t]) \o <<NL>>
                              ELSE SubSeq(Message(call[t]), 1, pos[t])
                     IN  /\ Len(o) >= Len(w)
                         /\ SubSeq(o, Len(o) - Len(w) + 1, Len(o)) = w

\* A call whose newline write failed: every message write before it was made,
\* and no flush after it.
WriteProtocolWitness ==
    \E t \in Threads :
        /\ pc[t] = "panicked"
        /\ Len(trace[t]) = MsgLen + 1
        /\ trace[t][MsgLen + 1] = <<"newline", FALSE>>

\* C10: append semantics.  What a file held at the start stays at the start
\* of the file; while no write routine has failed on the file and none is
\* running, the file is that content followed by the records of the calls
\* that returned Ok, in the order they returned.
AppendSemantics ==
    \A d \in FileKeys :
        /\ IsPrefix(InitialContent(d), out[d])
        /\ ~WriterFailed(d)
           /\ (\A t \in Threads : pc[t] \in WriterStates => Dest(t) # d)
              => out[d] = InitialContent(d) \o Records(okCalls[d])

\* Two calls have appended their records to a file that had content.
AppendSemanticsWitness ==
    \E d \in FileKeys :
        /\ InitialContent(d) # <<>>
        /\ Len(okCalls[d]) = 2
        /\ ~WriterFailed(d)
        /\ out[d] = InitialContent(d) \o Records(okCalls[d])

\* u starts with the scheme p
HasScheme(u, p) == Len(u) >= Len(p) /\ \A i \in 1..Len(p) : u[i] = p[i]

\* what follows the scheme p in u
AfterScheme(u, p) == [i \in 1..(Len(u) - Len(p)) |-> u[Len(p) + i]]

\* i is the place of the last colon of a
IsLastColon(a, i) == a[i] = ":" /\ \A j \in (i + 1)..Len(a) : a[j] # ":"

\* p is a decimal numeral: one digit or more, nothing else
IsNumeral(p) == p # <<>> /\ \A i \in 1..Len(p) : IsDigit(p[i])

\* the number the numeral p denotes: its digits weighted by the powers of ten,
\* the last digit by 1
NumeralValue(p) ==
    LET weight[i \in 1..Len(p)] == IF i = Len(p) THEN 1 ELSE 10 * weight[i + 1]
        sum[i \in 0..Len(p)] ==
            IF i = 0 THEN 0 ELSE sum[i - 1] + weight[i] * DigitValue(p[i])
    IN  sum[Len(p)]

\* p is the numeral of a port: of a number 0..65535
IsPort(p) == IsNumeral(p) /\ NumeralValue(p) <= 65535

\* h without its square brackets, if it is enclosed in them
Unbracketed(h) ==
    IF Len(h) >= 2 /\ h[1] = "[" /\ h[Len(h)] = "]"
    THEN [i \in 1..(Len(h) - 2) |-> h[i + 1]]
    ELSE h

\* C11: TCP destination resolution.  A call on a destination tcp://<a>, where
\* <a> has a last colon followed by the numeral of a port, is dispatched to the
\* tcp cache with the key (host, port): host is what precedes that last colon,
\* without its square brackets if it is enclosed in them, and port the number
\* after it.  So tcp://[::1]:9999 has the key (::1, 9999) and
\* tcp://localhost:9999 the key (localhost, 9999).
TcpResolution ==
    [][\A t \in Threads : \A u \in uris :
          Call(t, u) /\ HasScheme(u, TcpScheme) =>
              LET a == AfterScheme(u, TcpScheme)
              IN  /\ \A i \in 1..Len(a) :
                        IsLastColon(a, i) /\ IsPort(SubSeq(a, i + 1, Len(a))) =>
                            /\ pc'[t] = "tcp_entry"
                            /\ key'[t] =
                                  [kind |-> "tcp",
                                   host |-> Unbracketed(SubSeq(a, 1, i - 1)),
                                   port |-> NumeralValue(SubSeq(a, i + 1, Len(a)))]
                  /\ a = <<"[", ":", ":", "1", "]", ":", "9", "9", "9", "9">> =>
                        key'[t] = [kind |-> "tcp", host |-> <<":", ":", "1">>,
                                   port |-> 9999]
                  /\ a = <<"l", "o", "c", "a", "l", "h", "o", "s", "t", ":",
                           "9", "9", "9", "9">> =>
                        key'[t] = [kind |-> "tcp",
                                   host |-> <<"l", "o", "c", "a", "l", "h", "o", "s", "t">>,
                                   port |-> 9999]]_vars

\* The call on tcp://[::1]:9999 has been dispatched to the tcp cache with the
\* key (::1, 9999).
TcpResolutionWitness ==
    \E t \in Threads :
        /\ pc[t] = "tcp_entry"
        /\ uri[t] = TcpScheme \o <<"[", ":", ":", "1", "]", ":", "9", "9", "9", "9">>
        /\ key[t] = [kind |-> "tcp", host |-> <<":", ":", "1">>, port |-> 9999]

\* thread t is in a call that has been dispatched to a cache function
Dispatched(t) == pc[t] \notin {"idle", "panicked"}

\* thread t died in an expect() of the resolution
DiedOfResolution(t) == pc[t] = "panicked" /\ Len(panicMsg[t]) < 3

\* C12, as claimed: for every path p, in a program that logs to p and to
\* file://p, every call is dispatched to the file cache, and a call on p and a
\* call on file://p have the same key.
EveryPathSharesItsEntry ==
    /\ \A t \in Threads : ~DiedOfResolution(t)
    /\ \A t1, t2 \in Threads :
          Dispatched(t1) /\ Dispatched(t2) /\ uri[t2] = FileScheme \o uri[t1]
              => key[t1].kind = "file" /\ key[t1] = key[t2]

\* C12, amended: for every path p that starts with neither scheme, in a
\* program that logs to p and to file://p every call is dispatched to the file
\* cache with the key p, whichever of the two strings it was given; at most
\* one handle is ever opened on p, and every call that writes writes through
\* it.
SchemeStripping ==
    \A p \in uris :
        (FileScheme \o p) \in uris
        /\ ~HasScheme(p, FileScheme) /\ ~HasScheme(p, TcpScheme) =>
            LET k == [kind |-> "file", path |-> p]
            IN  /\ \A t \in Threads : ~DiedOfResolution(t)
                /\ \A t \in Threads : Dispatched(t) => key[t] = k
                /\ Len(fdTable) <= 1
                /\ \A t \in Threads :
                      pc[t] \in WriterStates =>
                          /\ handle[t] = 1
                          /\ fdTable = <<k>>
                          /\ DIRTY_FILES = (k :> 1)

\* A call on p opened the file and died of a failed write; a call on
\* file://p now writes through the handle that call opened, the only one.
SchemeStrippingWitness ==
    \E t1, t2 \in Threads : \E p \in uris :
        /\ ~HasScheme(p, FileScheme)
        /\ panicMsg[t1] = <<"failed to log to", p, "write_err">>
        /\ uri[t2] = FileScheme \o p
        /\ pc[t2] \in WriterStates
        /\ handle[t2] = 1
        /\ fdTable = <<[kind |-> "file", path |-> p]>>

\* p parses as an unsigned 16-bit integer: an optional + sign, then the numeral
\* of a number 0..65535
ParsesAsU16(p) == IsPort(IF p # <<>> /\ p[1] = "+" THEN Tail(p) ELSE p)

\* the tcp authority a is malformed: it has no colon, or what follows its last
\* colon does not parse as an unsigned 16-bit integer
Malformed(a) ==
    \/ \A i \in 1..Len(a) : a[i] # ":"
    \/ \E i \in 1..Len(a) :
          IsLastColon(a, i) /\ ~ParsesAsU16(SubSeq(a, i + 1, Len(a)))

\* C13: an invalid destination is fatal with no side effect.  The call on a
\* destination tcp://<a> with <a> malformed panics in the step that resolves
\* it, with the message of the expect() that failed: it is never dispatched to
\* a cache function, so nothing is opened, connected or written, and the
\* caches, their locks, the handles and the outputs are as before the call.
InvalidDestinationIsFatal ==
    [][\A t \in Threads : \A u \in uris :
          Call(t, u) /\ HasScheme(u, TcpScheme) /\ Malformed(AfterScheme(u, TcpScheme)) =>
              /\ pc'[t] = "panicked"
              /\ panicMsg'[t] \in {<<"invalid tcp uri">>,
                                   <<"invalid port number", "ParseIntError">>}
              /\ (panicMsg'[t] = <<"invalid tcp uri">>) <=>
                    (\A i \in 1..(Len(u) - Len(TcpScheme)) : u[Len(TcpScheme) + i] # ":")
              /\ trace'[t] = <<>>
              /\ UNCHANGED <<DIRTY_FILES, DIRTY_TCP, filesLock, tcpLock, fdTable, out,
                             handle, okCalls, logged, errCalls>>]_vars

\* The call on tcp://h:65536 died of the port, the caches empty and no handle
\* open.
InvalidDestinationIsFatalWitness ==
    \E t \in Threads :
        /\ uris = {TcpScheme \o <<"h", ":", "6", "5", "5", "3", "6">>}
        /\ pc[t] = "panicked"
        /\ panicMsg[t] = <<"invalid port number", "ParseIntError">>
        /\ DIRTY_TCP = <<>> /\ DIRTY_FILES = <<>> /\ fdTable = <<>>

\* the diagnostic msg names x: it is "failed to log to <x>: <error>" (the
\* diagnostics of the expect()s are fixed texts)
Names(msg, x) == Len(msg) >= 3 /\ msg[2] = x

\* the Err a step of thread t returns if it fails, by where the thread is
ErrAt(t) ==
    IF pc[t] \in OpenStates THEN "open_err"
    ELSE IF pc[t] = "flush" THEN "flush_err" ELSE "write_err"

\* C14, as claimed: every step in which a call dies, of a malformed
\* destination as of a failed open, leaves a diagnostic that names the
\* destination string of the call and the underlying error.
EveryFailureNamesDestination ==
    [][\A t \in Threads :
          pc[t] # "panicked" /\ pc'[t] = "panicked" =>
              \E u \in uris :
                  /\ IF pc[t] = "idle" THEN Call(t, u) ELSE u = uri[t]
                  /\ Names(panicMsg'[t], u)]_vars

\* C14, amended: a call that dies of a failed open, connect, write or flush
\* leaves the diagnostic "failed to log to <destination string>: <error>"; a
\* call that dies of a malformed destination leaves the fixed diagnostic of
\* the expect() that failed ("invalid tcp uri", or "invalid port number" with
\* the parse error), which does not name the destination string.
FailureSurfacing ==
    [][\A t \in Threads :
          pc[t] # "panicked" /\ pc'[t] = "panicked" =>
              IF pc[t] = "idle"
              THEN /\ \E u \in uris : Call(t, u) /\ HasScheme(u, TcpScheme)
                   /\ panicMsg'[t] \in {<<"invalid tcp uri">>,
                                        <<"invalid port number", "ParseIntError">>}
              ELSE panicMsg'[t] = <<"failed to log to", uri[t], ErrAt(t)>>]_vars

\* One call died of a malformed destination and one of a failed connect.
FailureSurfacingWitness ==
    \E t1, t2 \in Threads :
        /\ pc[t1] = "panicked" /\ panicMsg[t1] = <<"invalid tcp uri">>
        /\ pc[t2] = "panicked"
        /\ panicMsg[t2] = <<"failed to log to", TcpScheme \o <<"h", ":", "7">>, "open_err">>

\* the record of call c lies in the output of d at place p
RecordAt(d, p, c) ==
    /\ p + MsgLen <= Len(out[d])
    /\ SubSeq(out[d], p, p + MsgLen) = Message(c) \o <<NL>>

Bracketed(h) == Len(h) >= 2 /\ h[1] = "[" /\ h[Len(h)] = "]"

\* the host part h has a colon and is not enclosed in square brackets
HasBareColon(h) == ~Bracketed(h) /\ \E i \in 1..Len(h) : h[i] = ":"

\* C16, as claimed: the call on a destination tcp://<host>:<port> whose host
\* part (what precedes the last colon) has a colon without being enclosed in
\* square brackets is fatal: it is not dispatched with some host and port.
BareColonHostIsRejected ==
    [][\A t \in Threads : \A u \in uris :
          Call(t, u) /\ HasScheme(u, TcpScheme) =>
              LET a == AfterScheme(u, TcpScheme)
              IN  \A i \in 1..Len(a) :
                      IsLastColon(a, i) /\ HasBareColon(SubSeq(a, 1, i - 1))
                          => pc'[t] = "panicked"]_vars

\* C16, amended: a colon in an unbracketed host part is not rejected.  The call
\* on tcp://<host>:<port> whose host part has a colon without being enclosed
\* in square brackets is dispatched to the tcp cache with the whole host part
\* as the host, its colons and any unmatched bracket kept, whenever the port
\* part parses; it is fatal only when the port part does not parse.
BareColonHostIsKept ==
    [][\A t \in Threads : \A u \in uris :
          Call(t, u) /\ HasScheme(u, TcpScheme) =>
              LET a == AfterScheme(u, TcpScheme)
              IN  \A i \in 1..Len(a) :
                      IsLastColon(a, i) /\ HasBareColon(SubSeq(a, 1, i - 1)) =>
                          LET h == SubSeq(a, 1, i - 1)
                              p == SubSeq(a, i + 1, Len(a))
                          IN  IF ParsesAsU16(p)
                              THEN /\ pc'[t] = "tcp_entry"
                                   /\ key'[t].kind = "tcp"
                                   /\ key'[t].host = h
                                   /\ IsPort(p) => key'[t].port = NumeralValue(p)
                              ELSE /\ pc'[t] = "panicked"
                                   /\ panicMsg'[t] =
                                         <<"invalid port number", "ParseIntError">>]_vars

\* The call on tcp://::1:9999 has been dispatched to the tcp cache with the
\* key (::1, 9999).
BareColonHostIsKeptWitness ==
    \E t \in Threads :
        /\ pc[t] = "tcp_entry"
        /\ uri[t] = TcpScheme \o <<":", ":", "1", ":", "9", "9", "9", "9">>
        /\ key[t] = [kind |-> "tcp", host |-> <<":", ":", "1">>, port |-> 9999]

\* C17, as claimed: from its dispatch to a cache function on, a call has its
\* whole message formatted: none of it is formatted while the call waits for
\* or holds a cache entry.
FormattedBeforeEntry ==
    \A t \in Threads : Dispatched(t) => formatted[t] = MsgLen

\* C17, amended: the message is formatted inside the write routine, under the
\* cache entry.  A call that waits for its entry or runs the open has
\* formatted nothing; write_fmt formats the message piece by piece as it
\* writes it, so what is formatted is what write_fmt has been through; only
\* from the write of the newline on is the whole message formatted.
FormattedUnderEntry ==
    \A t \in Threads :
        /\ pc[t] \in EntryStates \cup OpenStates => formatted[t] = 0
        /\ pc[t] = "write_fmt" => formatted[t] = pos[t] /\ formatted[t] < MsgLen
        /\ pc[t] \in {"write_nl", "flush"} => formatted[t] = MsgLen
        /\ formatted[t] > 0 => InCS(t)

\* A thread has formatted its whole message while holding its entry, and
\* another thread waits for that entry with nothing formatted.
FormattedUnderEntryWitness ==
    \E t1, t2 \in Threads :
        /\ pc[t1] = "write_nl" /\ formatted[t1] = MsgLen
        /\ pc[t2] \in EntryStates /\ Dest(t2) = Dest(t1) /\ formatted[t2] = 0

\* the threads that hold a lock of a shard
LockHolders == ({filesLock[s] : s \in Shards} \cup {tcpLock[s] : s \in Shards}) \ {0}

\* C18: exclusive access is released before the failure becomes fatal.  A
\* thread that has panicked (or returned) holds no shard lock of either
\* cache: every lock that is held is held by a live thread between entry()
\* and the return of its cache function, for the shard of its own key.  So
\* the step in which a call dies of a failed open, write or flush leaves the
\* shard of its key free.
ReleasedBeforeFatal ==
    /\ \A t \in LockHolders : InCS(t)
    /\ \A s \in Shards :
          /\ filesLock[s] # 0 =>
                key[filesLock[s]].kind = "file" /\ hash[key[filesLock[s]]] = s
          /\ tcpLock[s] # 0 =>
                key[tcpLock[s]].kind = "tcp" /\ hash[key[tcpLock[s]]] = s
    /\ \A t \in Threads : pc[t] \in {"panicked", "idle"} => t \notin LockHolders

\* A call died of a failed open, and after it another thread has acquired
\* the entry of the same key and runs the open again.
ReleasedBeforeFatalWitness ==
    \E t1, t2 \in Threads :
        /\ pc[t1] = "panicked"
        /\ Len(panicMsg[t1]) = 3 /\ panicMsg[t1][3] = "open_err"
        /\ pc[t2] \in OpenStates
        /\ Dest(t2) = Resolve(panicMsg[t1][2])

\* the shards thread t holds the lock of, in both caches
Held(t) ==
    {<<"file", s>> : s \in {x \in Shards : filesLock[x] = t}}
    \cup {<<"tcp", s>> : s \in {x \in Shards : tcpLock[x] = t}}

\* thread t waits in entry() for a lock that is held
Blocked(t) == pc[t] \in EntryStates /\ ~ShardFree(Dest(t))

\* C19: deadlock freedom.  A thread holds at most one entry, and none while it
\* waits for one; a thread is blocked only by a thread that holds an entry
\* and is not itself blocked, so never are all threads blocked; and under a
\* fair scheduler, with I/O that returns, every call that was dispatched
\* completes: it returns or panics.
DeadlockFreedom ==
    /\ [](\A t \in Threads :
            /\ Cardinality(Held(t)) <= 1
            /\ pc[t] \in EntryStates => Held(t) = {}
            /\ Blocked(t) => \E u \in Threads \ {t} : InCS(u) /\ Held(u) # {})
    /\ \A t \in Threads : Dispatched(t) ~> ~Dispatched(t)

\* A thread waits in entry() on one key while another thread, in the open of
\* a different key of the same shard, holds the lock.
DeadlockFreedomWitness ==
    \E t1, t2 \in Threads :
        /\ Blocked(t1)
        /\ pc[t2] \in OpenStates
        /\ Dest(t1) # Dest(t2)
        /\ Held(t2) # {}

\* What has been added to d is made of pieces, one per call and one after the
\* other: the bytes of a call are next to each other and at most a message
\* long, and a newline comes only after the whole message of a call.
InPieces(d) ==
    LET a == Added(d)
        n == Len(a)
    IN  /\ \A i \in 1..n :
              a[i] = NL =>
                  /\ i > MsgLen
                  /\ \A j \in (i - MsgLen)..(i - 1) : a[j] # NL /\ a[j] = a[i - 1]
        /\ \A i, j \in 1..n :
              i < j /\ a[i] # NL /\ a[i] = a[j] =>
                  /\ j - i < MsgLen
                  /\ \A k \in i..j : a[k] = a[i]

\* the call c has left less than its record in d: its bytes are there, the
\* newline after them is not
LeftPrefix(d, c) ==
    LET a == Added(d)
    IN  \E i \in 1..Len(a) :
            /\ a[i] = MsgByte(c)
            /\ i = Len(a) \/ a[i + 1] \notin {MsgByte(c), NL}

\* every call on d that returned Ok has its whole record in d
OkRecordsWhole(d) ==
    \A i \in 1..Len(okCalls[d]) :
        \E p \in 1..Len(out[d]) : RecordAt(d, p, okCalls[d][i])

\* less than a record, of a call that no thread is still making, is in d only
\* where a write has failed
PrefixesAreOfFailures(d) ==
    \A c \in 1..calls :
        LeftPrefix(d, c) /\ (\A t \in Threads : call[t] # c) => WriterFailed(d)

\* C20: failed writes leave only a prefix of the record.  The step in which a
\* call dies inside the write routine writes nothing, and no step alters what
\* a destination holds already; so what a failed call leaves is what it wrote
\* before: the first bytes of <message>\n, in one piece.  Every call that
\* returned Ok has its whole record in one piece directly after the piece
\* before it, and a piece that is less than a record, with no call still
\* writing it, is there only where a write has failed.
FailedWritesLeavePrefix ==
    /\ [][/\ \A t \in Threads :
                pc[t] \in WriterStates /\ pc'[t] = "panicked" => out' = out
          /\ \A d \in Dests : IsPrefix(out[d], out'[d])]_vars
    /\ [](\A d \in Dests :
             /\ InPieces(d)
             /\ OkRecordsWhole(d)
             /\ PrefixesAreOfFailures(d))

\* The write of the newline of one call failed, and the next call on the key
\* returned Ok: the output is the message of the first without its newline,
\* and directly after it the record of the second.
FailedWritesLeavePrefixWitness ==
    \E d \in Dests : \E c1, c2 \in 1..calls :
        /\ c1 # c2
        /\ WriterFailed(d)
        /\ okCalls[d] = <<c2>>
        /\ Added(d) = Message(c1) \o Message(c2) \o <<NL>>

=============================================================================
